---- MODULE Spec2Model ----
(***************************************************************************)
(* Model of the Fenwick tree of src/src/lib.rs (struct Fenwick<T>, its     *)
(* constructors, point updates, prefix / range queries, rank searches and  *)
(* the two iterators).  T is modelled as the mathematical integers; every  *)
(* subtraction on T also reports whether its result is below zero, which   *)
(* is what an unsigned T cannot represent.                                 *)
(***************************************************************************)
EXTENDS Integers, Sequences, FiniteSets, TLC

\* Largest length handed to new / from_vec / from_slice / from_iter.
MaxSize == 5
\* Largest sum of the absolute values of the logical elements of a tree.
MaxTotal == 3
\* Largest delta handed to add / sub.
MaxDelta == 2
\* Elements (and values handed to set and the constructors) are >= -NegVal.
NegVal == 1

VARIABLES
  data,   \* Fenwick::data, a function 0 .. size-1 -> Int        (lib.rs:29)
  size,   \* Fenwick::size                                       (lib.rs:30)
  elems,  \* history: logical element i = initial value + net of the deltas
  it,     \* the live iterator, FenwickIter / FenwickIntoIter, and what it yielded
  last    \* history: the last call, its arguments and what it returned

vars == <<data, size, elems, it, last>>

----------------------------------------------------------------------------
\* Arithmetic helpers

\* lsb!(i) = i & i.wrapping_neg(): the lowest set bit, 0 for 0.
RECURSIVE lsb(_)
lsb(i) == IF i = 0 THEN 0 ELSE IF i % 2 = 1 THEN 1 ELSE 2 * lsb(i \div 2)

RECURSIVE Pow2(_)
Pow2(k) == IF k = 0 THEN 1 ELSE 2 * Pow2(k - 1)

\* (n as f64).log(2_f64).ceil() as u32: the cast saturates -inf (n = 0) to 0.
RECURSIVE CeilLog2From(_, _)
CeilLog2From(n, k) == IF Pow2(k) >= n THEN k ELSE CeilLog2From(n, k + 1)

CeilLog2(n) == CeilLog2From(n, 0)

\* 2_usize.pow(n_bits as u32) + 1_usize
AdjustedSize(n) == Pow2(CeilLog2(n)) + 1

Min(a, b) == IF a <= b THEN a ELSE b

----------------------------------------------------------------------------
\* Construction

new(n) ==
  LET sz == AdjustedSize(n)
  IN  [data |-> [p \in 0 .. sz - 1 |-> 0], size |-> sz]

\* The loop `for i in 1..size` of from_slice.
RECURSIVE slice_build(_, _, _)
slice_build(d, i, sz) ==
  IF i >= sz THEN d
  ELSE LET j == i + lsb(i)
       IN  slice_build(IF j < sz THEN [d EXCEPT ![j] = d[j] + d[i]] ELSE d,
                       i + 1, sz)

from_slice(slice) ==
  LET sz == AdjustedSize(Len(slice))
      d0 == [p \in 0 .. sz - 1 |-> IF p < Len(slice) THEN slice[p + 1] ELSE 0]
  IN  [data |-> slice_build(d0, 1, sz), size |-> sz]

\* The loop `for i in 1..size` of from_vec.
RECURSIVE vec_build(_, _, _)
vec_build(d, i, sz) ==
  IF i >= sz THEN d
  ELSE LET j == i + lsb(i)
       IN  vec_build(IF j < sz THEN [d EXCEPT ![j] = d[j] + d[i]] ELSE d,
                     i + 1, sz)

\* A forward pass that folds every slot into its right neighbour.
RECURSIVE vec_build_next(_, _, _)
vec_build_next(d, i, sz) ==
  IF i >= sz THEN d
  ELSE LET j == i + 1
       IN  vec_build_next(IF j < sz THEN [d EXCEPT ![j] = d[j] + d[i]] ELSE d,
                          i + 1, sz)

from_vec_next(vec) ==
  LET sz == AdjustedSize(Len(vec))
      d0 == [p \in 0 .. sz - 1 |-> IF p < Len(vec) THEN vec[p + 1] ELSE 0]
  IN  [data |-> vec_build_next(d0, 1, sz), size |-> sz]

from_vec(vec) ==
  LET sz == AdjustedSize(Len(vec))
      d0 == [p \in 0 .. sz - 1 |-> IF p < Len(vec) THEN vec[p + 1] ELSE 0]
  IN  [data |-> vec_build(d0, 1, sz), size |-> sz]

\* FromIterator::from_iter: collect into a Vec, then from_vec.
from_iter(items) == from_vec(items)

----------------------------------------------------------------------------
\* Queries

end(sz) == sz - 1

RECURSIVE prefix_walk(_, _, _)
prefix_walk(d, i, sum) ==
  IF i # 0 THEN prefix_walk(d, i - lsb(i), sum + d[i]) ELSE sum

prefix_sum(d, idx) == prefix_walk(d, idx, d[0])

total(d, sz) == d[end(sz)] + d[0]

\* First loop of range_sum: `while j > i`.
RECURSIVE range_walk_j(_, _, _, _)
range_walk_j(d, i, j, sum) ==
  IF j > i THEN range_walk_j(d, i, j - lsb(j), sum + d[j])
  ELSE [j |-> j, sum |-> sum]

\* Second loop of range_sum: `while i > j`; neg: some `sum -= data[i]` went below 0.
RECURSIVE range_walk_i(_, _, _, _, _)
range_walk_i(d, i, j, sum, neg) ==
  IF i > j THEN range_walk_i(d, i - lsb(i), j, sum - d[i], neg \/ sum - d[i] < 0)
  ELSE [res |-> sum, neg |-> neg]

\* range_sum whose lower cursor starts at idx_i instead of idx_i - 1.
range_sum_lower(d, idx_i, idx_j) ==
  LET s0 == IF idx_i > 0 THEN 0 ELSE d[0]
      i0 == idx_i
      r  == range_walk_j(d, i0, idx_j, s0)
  IN  range_walk_i(d, i0, r.j, r.sum, FALSE)

range_sum(d, idx_i, idx_j) ==
  LET s0 == IF idx_i > 0 THEN 0 ELSE d[0]
      i0 == IF idx_i > 0 THEN idx_i - 1 ELSE 0
      r  == range_walk_j(d, i0, idx_j, s0)
  IN  range_walk_i(d, i0, r.j, r.sum, FALSE)

get(d, idx) ==
  IF idx = 0 THEN [res |-> d[0], neg |-> FALSE] ELSE range_sum(d, idx, idx)

----------------------------------------------------------------------------
\* Point updates

RECURSIVE add_walk(_, _, _, _)
add_walk(d, sz, i, delta) ==
  IF i < sz THEN add_walk([d EXCEPT ![i] = d[i] + delta], sz, i + lsb(i), delta)
  ELSE d

\* add whose walk stops one slot early (`while i < self.size - 1`).
RECURSIVE add_walk_short(_, _, _, _)
add_walk_short(d, sz, i, delta) ==
  IF i < sz - 1
  THEN add_walk_short([d EXCEPT ![i] = d[i] + delta], sz, i + lsb(i), delta)
  ELSE d

add_short(d, sz, idx, delta) ==
  IF idx = 0 THEN [d EXCEPT ![0] = d[0] + delta]
  ELSE add_walk_short(d, sz, idx, delta)

add(d, sz, idx, delta) ==
  IF idx = 0 THEN [d EXCEPT ![0] = d[0] + delta]
  ELSE add_walk(d, sz, idx, delta)

\* neg: some `data[i] -= delta` went below 0.
RECURSIVE sub_walk(_, _, _, _, _)
sub_walk(d, sz, i, delta, neg) ==
  IF i < sz
  THEN sub_walk([d EXCEPT ![i] = d[i] - delta], sz, i + lsb(i), delta,
                neg \/ d[i] - delta < 0)
  ELSE [data |-> d, neg |-> neg]

sub(d, sz, idx, delta) ==
  IF idx = 0 THEN [data |-> [d EXCEPT ![0] = d[0] - delta], neg |-> d[0] - delta < 0]
  ELSE sub_walk(d, sz, idx, delta, FALSE)

\* set that always adds the new value instead of the difference.
set_adds(d, sz, idx, value) ==
  [data |-> add(d, sz, idx, value), neg |-> FALSE]

set(d, sz, idx, value) ==
  LET cur == get(d, idx)
  IN  IF cur.res <= value
      THEN [data |-> add(d, sz, idx, value - cur.res),
            neg  |-> cur.neg \/ value - cur.res < 0]
      ELSE LET s == sub(d, sz, idx, cur.res - value)
           IN  [data |-> s.data, neg |-> cur.neg \/ s.neg \/ cur.res - value < 0]

----------------------------------------------------------------------------
\* Rank searches

\* The loop `while j > 0` of rank_query; neg: some `v -= data[i + j]` went below 0.
RECURSIVE rank_walk(_, _, _, _, _, _)
rank_walk(d, sz, i, j, v, neg) ==
  IF j > 0
  THEN IF i + j < sz /\ d[i + j] <= v
       THEN rank_walk(d, sz, i + j, j \div 2, v - d[i + j], neg \/ v - d[i + j] < 0)
       ELSE rank_walk(d, sz, i, j \div 2, v, neg)
  ELSE [res |-> i, neg |-> neg]

\* The same loop comparing with `<` instead of `<=`.
RECURSIVE rank_walk_strict(_, _, _, _, _, _)
rank_walk_strict(d, sz, i, j, v, neg) ==
  IF j > 0
  THEN IF i + j < sz /\ d[i + j] < v
       THEN rank_walk_strict(d, sz, i + j, j \div 2, v - d[i + j],
                             neg \/ v - d[i + j] < 0)
       ELSE rank_walk_strict(d, sz, i, j \div 2, v, neg)
  ELSE [res |-> i, neg |-> neg]

rank_query_strict(d, sz, value) ==
  rank_walk_strict(d, sz, 0, sz - 1, value - d[0], value - d[0] < 0)

\* rank_query that forgets to take data[0] off the value.
rank_query_keeps_zero(d, sz, value) ==
  rank_walk(d, sz, 0, sz - 1, value, FALSE)

rank_query(d, sz, value) ==
  rank_walk(d, sz, 0, sz - 1, value - d[0], value - d[0] < 0)

\* The loop `while i & 0x01 == 0` of min_rank_query and the final choice.
RECURSIVE min_rank_walk(_, _, _, _, _)
min_rank_walk(d, i, dd, v, neg) ==
  IF i % 2 = 0
  THEN IF dd < v
       THEN LET i2 == i + lsb(i \div 2)
            IN  min_rank_walk(d, i2, d[i2], v - dd, neg \/ v - dd < 0)
       ELSE LET i2 == i - lsb(i \div 2)
            IN  min_rank_walk(d, i2, d[i2], v, neg)
  ELSE [res |-> IF v > dd THEN i + 1 ELSE i, neg |-> neg]

\* The same walk ending with `if v >= d`.
RECURSIVE min_rank_walk_ge(_, _, _, _, _)
min_rank_walk_ge(d, i, dd, v, neg) ==
  IF i % 2 = 0
  THEN IF dd < v
       THEN LET i2 == i + lsb(i \div 2)
            IN  min_rank_walk_ge(d, i2, d[i2], v - dd, neg \/ v - dd < 0)
       ELSE LET i2 == i - lsb(i \div 2)
            IN  min_rank_walk_ge(d, i2, d[i2], v, neg)
  ELSE [res |-> IF v >= dd THEN i + 1 ELSE i, neg |-> neg]

min_rank_query_ge(d, sz, value) ==
  IF value <= d[0] THEN [res |-> 0, neg |-> FALSE]
  ELSE LET i  == end(sz)
           dd == d[i]
           v  == Min(value - d[0], dd)
       IN  min_rank_walk_ge(d, i, dd, v, value - d[0] < 0)

min_rank_query(d, sz, value) ==
  IF value <= d[0] THEN [res |-> 0, neg |-> FALSE]
  ELSE LET i  == end(sz)
           dd == d[i]
           v  == Min(value - d[0], dd)
       IN  min_rank_walk(d, i, dd, v, value - d[0] < 0)

\* debug_assert!(self.data.iter().all(|&n| n >= T::default()))
all_non_negative(d, sz) == \A p \in 0 .. sz - 1 : d[p] >= 0

----------------------------------------------------------------------------
\* Iterators: next returns the new cursor and Some(item) or None

\* FenwickIntoIter::next
into_iter_next(idx, d, sz) ==
  IF idx < end(sz)
  THEN [idx |-> idx + 1, some |-> TRUE, item |-> get(d, (idx + 1) - 1).res]
  ELSE [idx |-> idx, some |-> FALSE, item |-> 0]

\* next that reads the element after advancing the cursor.
iter_next_after(idx, d, sz) ==
  IF idx < end(sz)
  THEN [idx |-> idx + 1, some |-> TRUE, item |-> get(d, idx + 1).res]
  ELSE [idx |-> idx, some |-> FALSE, item |-> 0]

\* FenwickIter::next
iter_next(idx, d, sz) ==
  IF idx < end(sz)
  THEN [idx |-> idx + 1, some |-> TRUE, item |-> get(d, (idx + 1) - 1).res]
  ELSE [idx |-> idx, some |-> FALSE, item |-> 0]

----------------------------------------------------------------------------
\* Inputs and history records

RECURSIVE SumAbs(_, _)
SumAbs(e, hi) ==
  IF hi < 0 THEN 0
  ELSE (IF e[hi] < 0 THEN 0 - e[hi] ELSE e[hi]) + SumAbs(e, hi - 1)

\* The trees the model explores: elements >= -NegVal, absolute sum <= MaxTotal.
InBounds(e, sz) ==
  /\ \A i \in 0 .. sz - 1 : e[i] >= 0 - NegVal
  /\ SumAbs(e, sz - 1) <= MaxTotal

Values == (0 - NegVal) .. MaxTotal

Deltas == 0 .. MaxDelta

\* Values handed to the rank searches: up to one more than any total.
RankValues == (0 - NegVal) .. (MaxTotal + 1)

\* The unsummed sequences handed to from_vec / from_slice / from_iter.
Sources ==
  { s \in UNION { [1 .. n -> Values] : n \in 0 .. MaxSize } :
      InBounds([p \in 0 .. Len(s) - 1 |-> s[p + 1]], Len(s)) }

NonNeg(e, sz) == \A i \in 0 .. sz - 1 : e[i] >= 0

Call(op, idx, idx2, arg, before, res, neg, pre, src) ==
  [op |-> op, idx |-> idx, idx2 |-> idx2, arg |-> arg, before |-> before,
   res |-> res, neg |-> neg, pre |-> pre, src |-> src]

Idle == Call("idle", 0, 0, 0, 0, 0, FALSE, FALSE, <<>>)

NoIter == [kind |-> "none", idx |-> 0, out |-> <<>>, done |-> FALSE]

\* The logical elements of a tree built from the unsummed sequence s.
Padded(s, sz) == [p \in 0 .. sz - 1 |-> IF p < Len(s) THEN s[p + 1] ELSE 0]

----------------------------------------------------------------------------
\* Initial states: a tree right after construction

Built(t, e, op, n, s) ==
  /\ data = t.data
  /\ size = t.size
  /\ elems = e
  /\ it = NoIter
  /\ last = Call(op, n, 0, 0, 0, 0, FALSE, NonNeg(e, t.size), s)

Init ==
  \/ \E n \in 0 .. MaxSize :
       LET t == new(n) IN Built(t, Padded(<<>>, t.size), "new", n, <<>>)
  \/ \E s \in Sources :
       LET t == from_vec(s) IN Built(t, Padded(s, t.size), "from_vec", Len(s), s)
  \/ \E s \in Sources :
       LET t == from_slice(s) IN Built(t, Padded(s, t.size), "from_slice", Len(s), s)
  \/ \E s \in Sources :
       LET t == from_iter(s) IN Built(t, Padded(s, t.size), "from_iter", Len(s), s)

----------------------------------------------------------------------------
\* Actions: one per public operation.  A call is made when the previous one
\* has returned and no iterator holds the tree.

Ready == last.op = "idle" /\ it.kind = "none"

\* The caller takes the result of the previous call.
Return ==
  /\ last.op # "idle"
  /\ last' = Idle
  /\ UNCHANGED <<data, size, elems, it>>

Add ==
  \E idx \in 0 .. end(size), delta \in Deltas :
    LET e == [elems EXCEPT ![idx] = elems[idx] + delta]
    IN  /\ Ready
        /\ InBounds(e, size)
        /\ data' = add(data, size, idx, delta)
        /\ elems' = e
        /\ last' = Call("add", idx, 0, delta, get(data, idx).res, 0, FALSE,
                        NonNeg(elems, size), <<>>)
        /\ UNCHANGED <<size, it>>

Sub ==
  \E idx \in 0 .. end(size), delta \in Deltas :
    LET e == [elems EXCEPT ![idx] = elems[idx] - delta]
        r == sub(data, size, idx, delta)
    IN  /\ Ready
        /\ InBounds(e, size)
        /\ data' = r.data
        /\ elems' = e
        /\ last' = Call("sub", idx, 0, delta, get(data, idx).res, 0, r.neg,
                        NonNeg(elems, size), <<>>)
        /\ UNCHANGED <<size, it>>

\* set applies the difference to the value that get reports.
Set ==
  \E idx \in 0 .. end(size), value \in Values :
    LET cur == get(data, idx).res
        e   == [elems EXCEPT ![idx] = elems[idx] + (value - cur)]
        r   == set(data, size, idx, value)
    IN  /\ Ready
        /\ InBounds(e, size)
        /\ data' = r.data
        /\ elems' = e
        /\ last' = Call("set", idx, 0, value, cur, 0, r.neg,
                        NonNeg(elems, size), <<>>)
        /\ UNCHANGED <<size, it>>

Get ==
  \E idx \in 0 .. end(size) :
    LET r == get(data, idx)
    IN  /\ Ready
        /\ last' = Call("get", idx, 0, 0, 0, r.res, r.neg,
                        NonNeg(elems, size), <<>>)
        /\ UNCHANGED <<data, size, elems, it>>

PrefixSum ==
  \E idx \in 0 .. end(size) :
    /\ Ready
    /\ last' = Call("prefix_sum", idx, 0, 0, 0, prefix_sum(data, idx), FALSE,
                    NonNeg(elems, size), <<>>)
    /\ UNCHANGED <<data, size, elems, it>>

Total ==
  /\ Ready
  /\ last' = Call("total", 0, 0, 0, 0, total(data, size), FALSE,
                  NonNeg(elems, size), <<>>)
  /\ UNCHANGED <<data, size, elems, it>>

RangeSum ==
  \E idx_i \in 0 .. end(size), idx_j \in 0 .. end(size) :
    LET r == range_sum(data, idx_i, idx_j)
    IN  /\ Ready
        /\ idx_i <= idx_j
        /\ last' = Call("range_sum", idx_i, idx_j, 0, 0, r.res, r.neg,
                        NonNeg(elems, size), <<>>)
        /\ UNCHANGED <<data, size, elems, it>>

RankQuery ==
  \E value \in RankValues :
    LET r == rank_query(data, size, value)
    IN  /\ Ready
        /\ all_non_negative(data, size)
        /\ last' = Call("rank_query", 0, 0, value, 0, r.res, r.neg,
                        NonNeg(elems, size), <<>>)
        /\ UNCHANGED <<data, size, elems, it>>

MinRankQuery ==
  \E value \in RankValues :
    LET r == min_rank_query(data, size, value)
    IN  /\ Ready
        /\ all_non_negative(data, size)
        /\ last' = Call("min_rank_query", 0, 0, value, 0, r.res, r.neg,
                        NonNeg(elems, size), <<>>)
        /\ UNCHANGED <<data, size, elems, it>>

\* Fenwick::iter and IntoIterator for &Fenwick: a borrowing iterator at 0.
Iter ==
  /\ Ready
  /\ it' = [kind |-> "borrow", idx |-> 0, out |-> <<>>, done |-> FALSE]
  /\ UNCHANGED <<data, size, elems, last>>

\* IntoIterator for Fenwick: the tree moves into the iterator.
IntoIter ==
  /\ Ready
  /\ it' = [kind |-> "owned", idx |-> 0, out |-> <<>>, done |-> FALSE]
  /\ UNCHANGED <<data, size, elems, last>>

IterNext ==
  /\ it.kind = "borrow"
  /\ LET r == iter_next(it.idx, data, size)
     IN  it' = [it EXCEPT !.idx = r.idx,
                          !.out = IF r.some THEN Append(@, r.item) ELSE @,
                          !.done = ~r.some]
  /\ UNCHANGED <<data, size, elems, last>>

IntoIterNext ==
  /\ it.kind = "owned"
  /\ LET r == into_iter_next(it.idx, data, size)
     IN  it' = [it EXCEPT !.idx = r.idx,
                          !.out = IF r.some THEN Append(@, r.item) ELSE @,
                          !.done = ~r.some]
  /\ UNCHANGED <<data, size, elems, last>>

\* The borrow of a FenwickIter ends; the caller keeps the tree.
IterDrop ==
  /\ it.kind = "borrow"
  /\ it' = NoIter
  /\ UNCHANGED <<data, size, elems, last>>

Next ==
  \/ Return
  \/ Add
  \/ Sub
  \/ Set
  \/ Get
  \/ PrefixSum
  \/ Total
  \/ RangeSum
  \/ RankQuery
  \/ MinRankQuery
  \/ Iter
  \/ IntoIter
  \/ IterNext
  \/ IntoIterNext
  \/ IterDrop

Spec == Init /\ [][Next]_vars

----------------------------------------------------------------------------
\* Reference definitions over the logical elements

\* elems[lo] + ... + elems[hi], 0 when the range is empty.
RECURSIVE ElemSum(_, _, _)
ElemSum(e, lo, hi) == IF hi < lo THEN 0 ELSE e[hi] + ElemSum(e, lo, hi - 1)

\* s[1] + ... + s[n]
RECURSIVE SeqSum(_, _)
SeqSum(s, n) == IF n = 0 THEN 0 ELSE s[n] + SeqSum(s, n - 1)

\* The highest index holding a non-zero element (some element is non-zero).
LastNonZero(e, sz) ==
  CHOOSE i \in 0 .. sz - 1 :
    e[i] # 0 /\ \A k \in (i + 1) .. (sz - 1) : e[k] = 0

\* The tree of tests::rank_query / tests::min_rank_query: new(8), then
\* add(0,1), add(1,1), add(2,3), add(3,1), add(4,1).
ScenarioSize == new(8).size

ScenarioData ==
  add(add(add(add(add(new(8).data, ScenarioSize, 0, 1), ScenarioSize, 1, 1),
              ScenarioSize, 2, 3), ScenarioSize, 3, 1), ScenarioSize, 4, 1)

----------------------------------------------------------------------------
\* Claims

\* C1: in every reachable state the slot invariant holds: data[0] is logical
\* element 0 and, for every slot 1 <= p <= end(), data[p] is the sum of the
\* logical elements at the indices i with p - lsb(p) < i <= p.
C1_SlotInvariant ==
  /\ DOMAIN data = 0 .. size - 1
  /\ data[0] = elems[0]
  /\ \A p \in 1 .. end(size) : data[p] = ElemSum(elems, p - lsb(p) + 1, p)

C1_Witness ==
  /\ last.op = "sub"
  /\ size = 9
  /\ last.idx = 3
  /\ last.arg > 0
  /\ elems[5] # 0

\* C2: after add(idx, d) get(idx) is exactly d larger than before, after
\* sub(idx, d) exactly d smaller, after set(idx, v) it is v, and a second
\* set(idx, v) leaves the tree as it is; for every valid idx, 0 and end() too.
C2_PointUpdates ==
  /\ last.op = "add" => get(data, last.idx).res = last.before + last.arg
  /\ last.op = "sub" => get(data, last.idx).res = last.before - last.arg
  /\ last.op = "set" => /\ get(data, last.idx).res = last.arg
                        /\ set(data, size, last.idx, last.arg).data = data

C2_Witness ==
  /\ last.op = "set"
  /\ size = 9
  /\ last.idx = end(size)
  /\ last.before > last.arg
  /\ elems[0] # 0

\* C3: range_sum(a, b) = prefix_sum(b) - (prefix_sum(a - 1) if a > 0, else 0)
\* for all a <= b <= end(), and prefix_sum(idx) = range_sum(0, idx).
C3_RangeSum ==
  /\ last.op = "range_sum" =>
       last.res = prefix_sum(data, last.idx2)
                    - (IF last.idx > 0 THEN prefix_sum(data, last.idx - 1) ELSE 0)
  /\ last.op = "prefix_sum" => last.res = range_sum(data, 0, last.idx).res

\* range_sum(6, 7): the cursors 7 -> 6 -> 4 and 5 -> 4 meet at the shared slot 4.
C3_Witness ==
  /\ last.op = "range_sum"
  /\ size = 9
  /\ last.idx = 6
  /\ last.idx2 = 7
  /\ last.res # 0
  /\ data[4] # 0

\* C4: the tree built by from_vec, from_slice or from_iter from the unsummed
\* sequence S has get(i) = S[i] and prefix_sum(i) = S[0] + ... + S[i] for every
\* i below the length of S, whatever that length.
C4_BuildFrom ==
  last.op \in {"from_vec", "from_slice", "from_iter"} =>
    \A i \in 0 .. Len(last.src) - 1 :
      /\ get(data, i).res = last.src[i + 1]
      /\ prefix_sum(data, i) = SeqSum(last.src, i + 1)

C4_Witness ==
  /\ last.op = "from_iter"
  /\ Len(last.src) = 5
  /\ last.src[2] > 0
  /\ last.src[3] > 0
  /\ last.src[5] > 0

\* C5: on a tree of non-negative elements, when some index has a prefix sum
\* <= value, rank_query(value) is the greatest valid index whose prefix sum
\* is <= value.
C5_RankQuery ==
  (last.op = "rank_query" /\ last.pre /\ elems[0] <= last.arg) =>
    /\ last.res \in 0 .. end(size)
    /\ ElemSum(elems, 0, last.res) <= last.arg
    /\ \A k \in (last.res + 1) .. end(size) : ElemSum(elems, 0, k) > last.arg

\* The answer lies inside the tree, through a zero element whose prefix sum ties.
C5_Witness ==
  /\ last.op = "rank_query"
  /\ last.pre
  /\ size = 9
  /\ last.res = 5
  /\ elems[5] = 0
  /\ elems[6] > 0
  /\ elems[0] > 0

\* C6: on a tree of non-negative elements, when value <= total(),
\* min_rank_query(value) is the smallest valid index whose prefix sum is
\* >= value.
C6_MinRankQuery ==
  (last.op = "min_rank_query" /\ last.pre
     /\ last.arg <= ElemSum(elems, 0, end(size))) =>
    /\ last.res \in 0 .. end(size)
    /\ ElemSum(elems, 0, last.res) >= last.arg
    /\ \A k \in 0 .. (last.res - 1) : ElemSum(elems, 0, k) < last.arg

C6_Witness ==
  /\ last.op = "min_rank_query"
  /\ last.pre
  /\ size = 9
  /\ last.res = 6
  /\ elems[0] > 0
  /\ elems[3] > 0
  /\ last.arg <= ElemSum(elems, 0, end(size))

\* C7 as stated: the rank searches report a no-match outcome, distinguishable
\* from every valid index, when element 0 alone exceeds the value
\* (rank_query) and when total() < value (min_rank_query).
C7_NoMatchSignalled ==
  /\ (last.op = "rank_query" /\ last.pre /\ elems[0] > last.arg) =>
       last.res \notin 0 .. end(size)
  /\ (last.op = "min_rank_query" /\ last.pre
        /\ ElemSum(elems, 0, end(size)) < last.arg) =>
       last.res \notin 0 .. end(size)

\* C7 amended: neither search has a no-match outcome.  rank_query(value)
\* returns index 0 when element 0 alone exceeds value; min_rank_query(value)
\* returns a valid index when total() < value, the index of the last non-zero
\* element when one lies above index 0.  On the tree of the tests,
\* rank_query(0) = 0 = rank_query(1) and min_rank_query(8) = 4.
C7_NoMatchIsAnIndex ==
  /\ (last.op = "rank_query" /\ last.pre /\ elems[0] > last.arg) =>
       last.res = 0
  /\ (last.op = "min_rank_query" /\ last.pre
        /\ ElemSum(elems, 0, end(size)) < last.arg) =>
       /\ last.res \in 0 .. end(size)
       /\ (\E i \in 1 .. end(size) : elems[i] # 0) =>
            last.res = LastNonZero(elems, size)
  /\ rank_query(ScenarioData, ScenarioSize, 0).res = 0
  /\ rank_query(ScenarioData, ScenarioSize, 1).res = 0
  /\ min_rank_query(ScenarioData, ScenarioSize, 8).res = 4

C7_Witness ==
  /\ last.op = "rank_query"
  /\ last.pre
  /\ last.arg >= 0
  /\ elems[0] > last.arg
  /\ elems[1] > 0
  /\ last.res = 0

\* C8: on a tree of non-negative elements, not all zero, when value > total()
\* min_rank_query(value) is the index of the last non-zero element, also when
\* that element is at index 0.
C8_LastNonZero ==
  (last.op = "min_rank_query" /\ last.pre
     /\ (\E i \in 0 .. end(size) : elems[i] # 0)
     /\ last.arg > ElemSum(elems, 0, end(size))) =>
    last.res = LastNonZero(elems, size)

C10_NoUnderflow ==
  (/\ last.op \in {"set", "get", "range_sum", "rank_query", "min_rank_query"}
   /\ last.pre
   /\ last.arg >= 0) =>
    ~last.neg

====
